---- MODULE Spec2Model ----
(***************************************************************************)
(* Model of zabbix_template_readme_generator.py: the text sanitizer, the   *)
(* optional translation of descriptions, the entity extractors, the table  *)
(* renderer and main(), which assembles the README and writes it.          *)
(*                                                                         *)
(* Python str values are sequences of one-character strings.  A value      *)
(* stored in the parsed YAML tree is a tagged record [ty, v]: ty is the    *)
(* Python type ("str", "int", "none") and v the characters of its text.    *)
(* A Python dict is a TLA+ function whose DOMAIN is the set of its keys.   *)
(***************************************************************************)
EXTENDS Integers, Sequences, FiniteSets, TLC

(* ----------------------------- bounds ---------------------------------- *)
MaxLen == 3          \* longest text given to the pure text functions
MaxEntries == 2      \* longest collection given to the extractors
MaxTemplates == 2    \* most templates in one document given to main()

(* --------------------------- characters -------------------------------- *)
NL == "\n"
PIPE == "|"
BSL == "\\"
SPACE == " "
Chars == {"a", SPACE, NL, PIPE, BSL}
Whitespace == {SPACE, NL}
BR == <<"<", "b", "r", ">">>

RECURSIVE TextsUpTo(_)
TextsUpTo(n) ==
  IF n = 0 THEN {<<>>}
  ELSE LET shorter == TextsUpTo(n - 1)
       IN shorter \cup {Append(t, c) : t \in {s \in shorter : Len(s) = n - 1}, c \in Chars}

Texts == TextsUpTo(MaxLen)

(* str.replace(old, new) for a one-character old *)
RECURSIVE Replace(_, _, _)
Replace(text, old, new) ==
  IF text = <<>> THEN <<>>
  ELSE (IF Head(text) = old THEN new ELSE <<Head(text)>>) \o Replace(Tail(text), old, new)

(* mutant: the '|' replacement is forgotten *)
sanitize_description_noescape(text) == Replace(text, NL, BR)

sanitize_description(text) == Replace(Replace(text, NL, BR), PIPE, <<BSL, PIPE>>)

(* not text.strip(): true when every character is whitespace *)
IsBlank(text) == \A i \in 1..Len(text) : text[i] \in Whitespace

(* text.strip(): leading and trailing whitespace removed *)
RECURSIVE LStrip(_)
LStrip(text) ==
  IF text # <<>> /\ Head(text) \in Whitespace THEN LStrip(Tail(text)) ELSE text
RECURSIVE RStrip(_)
RStrip(text) ==
  IF text # <<>> /\ text[Len(text)] \in Whitespace
  THEN RStrip(SubSeq(text, 1, Len(text) - 1)) ELSE text
Strip(text) == RStrip(LStrip(text))

(* ------------------------- Python values ------------------------------- *)
S(text) == [ty |-> "str", v |-> text]
IntVal(digits) == [ty |-> "int", v |-> digits]
None == [ty |-> "none", v |-> <<>>]
EmptyStr == S(<<>>)

(* str(x): the text of a value; str(None) is the word None *)
Str(x) == IF x.ty = "none" THEN S(<<"N", "o", "n", "e">>) ELSE S(x.v)

(* dict.get(k, default) *)
Get(d, k, default) == IF k \in DOMAIN d THEN d[k] ELSE default

(* ---------------------- translation provider --------------------------- *)
(* What one use of the provider can do: the import fails, the call fails, *)
(* or the call returns a translation.                                      *)
RuTexts == {<<"r", PIPE>>}
Outcomes ==
  {[kind |-> "ok", ru |-> r] : r \in RuTexts}
    \cup {[kind |-> "import_error", ru |-> <<>>], [kind |-> "provider_error", ru |-> <<>>]}

Italic(text) == <<"<", "i", ">">> \o text \o <<"<", "/", "i", ">">>

DualResult(ret, raised, attempts, calls, diag) ==
  [ret |-> ret, raised |-> raised, attempts |-> attempts, calls |-> calls, diag |-> diag]

(* mutant: the except clause is missing, a provider failure propagates *)
dual_description_noexcept(text, flag, outcome) ==
  IF ~flag THEN DualResult(text, FALSE, 0, 0, 0)
  ELSE IF text.ty # "str" THEN DualResult(text, TRUE, 0, 0, 0)
  ELSE IF IsBlank(text.v) THEN DualResult(text, FALSE, 0, 0, 0)
  ELSE IF outcome.kind = "ok"
       THEN DualResult(S(outcome.ru \o BR \o Italic(text.v)), FALSE, 1, 1, 0)
       ELSE DualResult(text, TRUE, 1, IF outcome.kind = "import_error" THEN 0 ELSE 1, 0)

(* mutant: the emptiness test is missing, blank text is translated too *)
dual_description_noblank(text, flag, outcome) ==
  IF ~flag THEN DualResult(text, FALSE, 0, 0, 0)
  ELSE IF text.ty # "str" THEN DualResult(text, TRUE, 0, 0, 0)
  ELSE IF outcome.kind = "ok"
       THEN DualResult(S(outcome.ru \o BR \o Italic(text.v)), FALSE, 1, 1, 0)
       ELSE DualResult(text, FALSE, 1, IF outcome.kind = "import_error" THEN 0 ELSE 1, 1)

(* dual_description(text, do_translate) with the provider behaving as     *)
(* outcome.  ret is the returned value, raised says an exception left the *)
(* function, attempts counts entries into the try block, calls counts     *)
(* translate() calls and diag counts printed failure messages.            *)
dual_description(text, flag, outcome) ==
  IF ~flag THEN DualResult(text, FALSE, 0, 0, 0)
  ELSE IF text.ty # "str" THEN DualResult(text, TRUE, 0, 0, 0)   \* text.strip() on a non-str
  ELSE IF IsBlank(text.v) THEN DualResult(text, FALSE, 0, 0, 0)
  ELSE IF outcome.kind = "ok"
       THEN DualResult(S(outcome.ru \o BR \o Italic(text.v)), FALSE, 1, 1, 0)
       ELSE DualResult(text, FALSE, 1, IF outcome.kind = "import_error" THEN 0 ELSE 1, 1)

(* --------------------------- extractors -------------------------------- *)
OracleLen == 2       \* period of the provider's behaviour within one step

(* the provider's behaviour on the n-th dual_description call of a step *)
OutcomeAt(oracle, n) == oracle[((n - 1) % Len(oracle)) + 1]

(* what the log of calls says of the provider when it was not reached *)
NotConsulted == [kind |-> "not_consulted", ru |-> <<>>]

(* The state of an extractor's loop: the records appended so far, whether *)
(* an exception has left the loop, and the provider traffic it caused.    *)
NoRecords == [raised |-> FALSE, recs |-> <<>>, attempts |-> 0, calls |-> 0, diag |-> 0, log |-> <<>>]

(* one iteration: call dual_description on the description, then append  *)
(* the record made of the other fields and of the value it returned       *)
AppendRecord(acc, fields, desc, flag, oracle) ==
  IF acc.raised THEN acc
  ELSE LET o == OutcomeAt(oracle, Len(acc.log) + 1)
           d == dual_description(desc, flag, o)
           entry == [text |-> desc, flag |-> flag,
                     outcome |-> IF d.attempts > 0 THEN o ELSE NotConsulted,
                     ret |-> d.ret, raised |-> d.raised]
       IN [raised |-> d.raised,
           recs |-> IF d.raised THEN acc.recs
                    ELSE Append(acc.recs, [f \in DOMAIN fields \cup {"description"} |->
                                             IF f = "description" THEN d.ret ELSE fields[f]]),
           attempts |-> acc.attempts + d.attempts,
           calls |-> acc.calls + d.calls,
           diag |-> acc.diag + d.diag,
           log |-> Append(acc.log, entry)]

(* mutant: the fields are read without the '' default *)
ItemFields_nodefault(item) ==
  [name |-> Get(item, "name", None), key |-> Get(item, "key", None),
   type |-> Get(item, "type", None), value_type |-> Get(item, "value_type", None),
   units |-> Get(item, "units", None)]

ItemFields(item) ==
  [name |-> Get(item, "name", EmptyStr), key |-> Get(item, "key", EmptyStr),
   type |-> Get(item, "type", EmptyStr), value_type |-> Get(item, "value_type", EmptyStr),
   units |-> Get(item, "units", EmptyStr)]

TriggerFields(trigger) ==
  [name |-> Get(trigger, "name", EmptyStr), expression |-> Get(trigger, "expression", EmptyStr),
   priority |-> Get(trigger, "priority", EmptyStr)]

MacroFields(m) ==
  [macro |-> Get(m, "macro", EmptyStr), value |-> Get(m, "value", EmptyStr)]

RuleFields(d) ==
  [name |-> Get(d, "name", EmptyStr), key |-> Get(d, "key", EmptyStr)]

RECURSIVE ItemsLoop(_, _, _, _)
ItemsLoop(src, flag, oracle, acc) ==
  IF src = <<>> THEN acc
  ELSE ItemsLoop(Tail(src), flag, oracle,
         AppendRecord(acc, ItemFields(Head(src)), Get(Head(src), "description", EmptyStr), flag, oracle))

extract_items(template, flag, oracle) ==
  ItemsLoop(Get(template, "items", <<>>), flag, oracle, NoRecords)

RECURSIVE MacrosLoop(_, _, _, _)
MacrosLoop(src, flag, oracle, acc) ==
  IF src = <<>> THEN acc
  ELSE MacrosLoop(Tail(src), flag, oracle,
         AppendRecord(acc, MacroFields(Head(src)), Get(Head(src), "description", EmptyStr), flag, oracle))

extract_macros(template, flag, oracle) ==
  MacrosLoop(Get(template, "macros", <<>>), flag, oracle, NoRecords)

RECURSIVE TriggersLoop(_, _, _, _)
TriggersLoop(src, flag, oracle, acc) ==
  IF src = <<>> THEN acc
  ELSE TriggersLoop(Tail(src), flag, oracle,
         AppendRecord(acc, TriggerFields(Head(src)), Get(Head(src), "description", EmptyStr), flag, oracle))

RECURSIVE NestedTriggersLoop(_, _, _, _)
NestedTriggersLoop(items, flag, oracle, acc) ==
  IF items = <<>> THEN acc
  ELSE NestedTriggersLoop(Tail(items), flag, oracle,
         TriggersLoop(Get(Head(items), "triggers", <<>>), flag, oracle, acc))

(* mutant: the template-level triggers are walked before the items *)
extract_triggers_toplevel_first(template, flag, oracle) ==
  NestedTriggersLoop(Get(template, "items", <<>>), flag, oracle,
    TriggersLoop(Get(template, "triggers", <<>>), flag, oracle, NoRecords))

extract_triggers(template, flag, oracle) ==
  TriggersLoop(Get(template, "triggers", <<>>), flag, oracle,
    NestedTriggersLoop(Get(template, "items", <<>>), flag, oracle, NoRecords))

RECURSIVE RulesLoop(_, _, _, _)
RulesLoop(src, flag, oracle, acc) ==
  IF src = <<>> THEN acc
  ELSE RulesLoop(Tail(src), flag, oracle,
         AppendRecord(acc, RuleFields(Head(src)), Get(Head(src), "description", EmptyStr), flag, oracle))

extract_discovery_rules(template, flag, oracle) ==
  RulesLoop(Get(template, "discovery_rules", <<>>), flag, oracle, NoRecords)

(* ---------------------------- rendering -------------------------------- *)
(* mutant: every cell is sanitized a second time *)
markdown_table_twice(headers, rows) ==
  [headers |-> headers,
   rule |-> [i \in 1..Len(headers) |-> "---"],
   rows |-> [r \in 1..Len(rows) |->
              [c \in 1..Len(rows[r]) |->
                 sanitize_description(sanitize_description(Str(rows[r][c]).v))]]]

(* markdown_table(headers, rows): the header row, the separator row and   *)
(* one row per record, each cell being sanitize_description(str(cell)).   *)
(* The rows are kept apart; the text is their lines joined by ' | '.      *)
markdown_table(headers, rows) ==
  [headers |-> headers,
   rule |-> [i \in 1..Len(headers) |-> "---"],
   rows |-> [r \in 1..Len(rows) |->
              [c \in 1..Len(rows[r]) |-> sanitize_description(Str(rows[r][c]).v)]]]

NoTable == [headers |-> <<>>, rule |-> <<>>, rows |-> <<>>]

ItemHeaders == <<"Name", "Key", "Type", "Value type", "Units", "Description">>
TriggerHeaders == <<"Name", "Expression", "Priority", "Description">>
MacroHeaders == <<"Macro", "Value", "Description">>
RuleHeaders == <<"Name", "Key", "Description">>

ItemRow(i) == <<i.name, i.key, Str(i.type), Str(i.value_type), i.units, i.description>>
TriggerRow(t) == <<t.name, t.expression, t.priority, t.description>>
MacroRow(m) == <<Get(m, "macro", EmptyStr), Get(m, "value", EmptyStr), Get(m, "description", EmptyStr)>>
RuleRow(d) == <<Get(d, "name", EmptyStr), Get(d, "key", EmptyStr), Get(d, "description", EmptyStr)>>

ItemRows(recs) == [i \in 1..Len(recs) |-> ItemRow(recs[i])]
TriggerRows(recs) == [i \in 1..Len(recs) |-> TriggerRow(recs[i])]
MacroRows(recs) == [i \in 1..Len(recs) |-> MacroRow(recs[i])]
RuleRows(recs) == [i \in 1..Len(recs) |-> RuleRow(recs[i])]

(* One md_output += ...: the literal prefix of the appended text, the     *)
(* formatted value after it, and the table when one follows.  sect, tpl   *)
(* and rule say which section of which template and discovery rule the    *)
(* text was appended for.                                                 *)
Chunk(sect, k, j, prefix, text, table) ==
  [sect |-> sect, tpl |-> k, rule |-> j, prefix |-> prefix, text |-> text, table |-> table]

(* mutant: an empty collection counts as present *)
Truthy_always(x) == TRUE

(* the truth value of a str or a list in an if *)
Truthy(x) == Len(x) > 0

(* item prototypes of one discovery rule, lines 142-152 *)
RECURSIVE ItemProtosLoop(_, _, _, _)
ItemProtosLoop(src, flag, oracle, acc) ==
  IF src = <<>> THEN acc
  ELSE ItemProtosLoop(Tail(src), flag, oracle,
         AppendRecord(acc, ItemFields(Head(src)), Get(Head(src), "description", EmptyStr), flag, oracle))

(* trigger prototypes of one discovery rule, line 158 *)
RECURSIVE TriggerProtosLoop(_, _, _, _)
TriggerProtosLoop(src, flag, oracle, acc) ==
  IF src = <<>> THEN acc
  ELSE TriggerProtosLoop(Tail(src), flag, oracle,
         AppendRecord(acc, TriggerFields(Head(src)), Get(Head(src), "description", EmptyStr), flag, oracle))

(* --------------------------- input documents --------------------------- *)
(* Every entity of an export carries a uuid, which the program never      *)
(* reads; n tells the entities of one kind apart.                         *)
Digit(n) == CASE n = 0 -> "0" [] n = 1 -> "1" [] n = 2 -> "2" [] n = 3 -> "3" [] n = 4 -> "4"
              [] n = 5 -> "5" [] n = 6 -> "6" [] n = 7 -> "7" [] n = 8 -> "8" [] OTHER -> "9"
Name(c, n) == S(<<c, Digit((n \div 10) % 10), Digit(n % 10)>>)
Bare(c, n) == [uuid |-> Name(c, n)]
With(d, k, val) == [f \in DOMAIN d \cup {k} |-> IF f = k THEN val ELSE d[f]]

PlainText == S(<<"a", PIPE>>)
TwoLines == S(<<"a", NL, PIPE>>)
BlankText == S(<<SPACE, NL>>)
PaddedText == S(<<SPACE, PIPE, "a">>)

FullTrigger(c, n, desc) ==
  [uuid |-> Name(c, n), name |-> Name(c, n), expression |-> S(<<"x", PIPE, Digit(n % 10)>>),
   priority |-> S(<<"H">>), description |-> desc]
FullItem(c, n, desc) ==
  [uuid |-> Name(c, n), name |-> Name(c, n), key |-> S(<<"k", Digit(n % 10)>>),
   type |-> IntVal(<<"7">>), value_type |-> S(<<"F">>), units |-> S(<<"B">>), description |-> desc]
FullMacro(n, desc) ==
  [uuid |-> Name("m", n), macro |-> Name("$", n), value |-> S(<<PIPE>>), description |-> desc]
FullRule(n, desc) ==
  [uuid |-> Name("d", n), name |-> Name("d", n), key |-> S(<<"k">>), description |-> desc]

(* the templates main() is run on *)
OnlyUuid == Bare("T", 0)
AllEmpty ==
  [uuid |-> Name("T", 1), template |-> Name("T", 1), description |-> BlankText,
   items |-> <<>>, triggers |-> <<>>, macros |-> <<>>, discovery_rules |-> <<>>]
Described == [uuid |-> Name("T", 2), template |-> Name("T", 2), description |-> PaddedText]
WithItems ==
  [uuid |-> Name("T", 3), template |-> Name("T", 3),
   items |-> <<With(FullItem("i", 1, TwoLines), "triggers", <<FullTrigger("n", 1, PlainText)>>),
               Bare("i", 2)>>,
   triggers |-> <<With(Bare("t", 1), "name", Name("t", 1))>>]
WithTriggers ==
  [uuid |-> Name("T", 4), triggers |-> <<FullTrigger("t", 1, PlainText), Bare("t", 2)>>,
   items |-> <<With(Bare("i", 1), "triggers", <<>>)>>]
WithMacros ==
  [uuid |-> Name("T", 5), template |-> Name("T", 5), macros |-> <<FullMacro(1, TwoLines), Bare("m", 2)>>]
WithRules ==
  [uuid |-> Name("T", 6), template |-> Name("T", 6),
   discovery_rules |->
     <<With(FullRule(1, BlankText), "item_prototypes",
            <<FullItem("p", 1, PlainText), With(Bare("p", 2), "description", BlankText)>>),
       With(With(Bare("d", 2), "item_prototypes", <<>>), "trigger_prototypes",
            <<FullTrigger("q", 1, TwoLines)>>),
       Bare("d", 3)>>]
Complete ==
  [uuid |-> Name("T", 7), template |-> Name("T", 7), description |-> PlainText,
   items |-> <<With(Bare("i", 1), "triggers", <<Bare("n", 1)>>)>>,
   triggers |-> <<Bare("t", 1)>>,
   macros |-> <<Bare("m", 1)>>,
   discovery_rules |->
     <<With(With(FullRule(1, BlankText), "item_prototypes", <<Bare("p", 1)>>),
            "trigger_prototypes", <<Bare("q", 1)>>)>>]

TemplatePool ==
  {OnlyUuid, AllEmpty, Described, WithItems, WithTriggers, WithMacros, WithRules, Complete}

RECURSIVE SeqsUpTo(_, _)
SeqsUpTo(set, n) ==
  IF n = 0 THEN {<<>>}
  ELSE LET shorter == SeqsUpTo(set, n - 1)
       IN shorter \cup {Append(q, e) : q \in {r \in shorter : Len(r) = n - 1}, e \in set}

(* the parsed documents: no zabbix_export key, no templates key, or a    *)
(* list of templates                                                      *)
NoExport == [version |-> S(<<"7">>)]
NoTemplates == [zabbix_export |-> [version |-> S(<<"7">>)]]
Document(ts) == [zabbix_export |-> [version |-> S(<<"7">>), templates |-> ts]]
Documents ==
  {NoExport, NoTemplates} \cup {Document(ts) : ts \in SeqsUpTo(TemplatePool, MaxTemplates)}

Oracles == [1..OracleLen -> Outcomes]

(* the provider's behaviours that one step of main() is run against: any  *)
(* of them when descriptions are translated, a provider that is down when *)
(* they are not                                                           *)
ProviderDown == [n \in 1..OracleLen |-> [kind |-> "provider_error", ru |-> <<>>]]
OraclesFor(flag) == IF flag THEN Oracles ELSE {ProviderDown}

(* ------------------------------ state ---------------------------------- *)
VARIABLES
  pc,               \* position in main(), or the state of a function under test
  exists,           \* os.path.exists(template_path)
  do_translate,     \* args.translate
  input_file,       \* what yaml.safe_load returns for the input file
  templates,        \* main's templates
  tplIdx,           \* position of the for loop over templates
  ruleIdx,          \* position of the for loop over the template's discovery rules
  md_output,        \* main's md_output, one element per +=
  items,            \* main's items
  triggers,         \* main's triggers
  macros,           \* main's macros
  discovery_rules,  \* main's discovery_rules
  loaderCalls,      \* calls of load_template
  outputOpens,      \* times the output file was opened for writing
  written,          \* content of the output file
  exitStatus,       \* status passed to exit(), -1 while none
  diag,             \* failure messages printed by dual_description
  dualLog,          \* the dual_description calls of the last step
  arg,              \* argument of the function under test
  result            \* what the function under test returned

vars == <<pc, exists, do_translate, input_file, templates, tplIdx, ruleIdx, md_output, items,
          triggers, macros, discovery_rules, loaderCalls, outputOpens, written, exitStatus,
          diag, dualLog, arg, result>>

mainLocals == <<templates, tplIdx, ruleIdx, md_output, items, triggers, macros, discovery_rules>>
environment == <<exists, do_translate, input_file>>
effects == <<loaderCalls, outputOpens, written, exitStatus>>
underTest == <<arg, result>>

Idle == [none |-> TRUE]

MainStart ==
  /\ templates = <<>> /\ tplIdx = 0 /\ ruleIdx = 0 /\ md_output = <<>>
  /\ items = <<>> /\ triggers = <<>> /\ macros = <<>> /\ discovery_rules = <<>>
  /\ loaderCalls = 0 /\ outputOpens = 0 /\ written = <<>> /\ exitStatus = -1
  /\ diag = 0 /\ dualLog = <<>>

Init ==
  /\ pc = "start"
  /\ MainStart
  /\ exists \in BOOLEAN
  /\ do_translate \in BOOLEAN
  /\ input_file \in (IF exists THEN Documents ELSE {NoExport})
  /\ arg = Idle /\ result = Idle

(* ------------------------------ main() --------------------------------- *)
(* mutant: the missing input is reported but the run goes on *)
input_check_noexit(e) == "load"

(* lines 97-99: where main goes after os.path.exists *)
input_check(e) == IF e THEN "load" ELSE "exited"

(* mutant: the Macros section is written before the Triggers section *)
SectionAfter_swapped(p) ==
  CASE p = "title" -> "description" [] p = "description" -> "items" [] p = "items" -> "macros"
    [] p = "macros" -> "triggers" [] p = "triggers" -> "discovery"

(* the order of the statements of the loop body, lines 105-136 *)
SectionAfter(p) ==
  CASE p = "title" -> "description" [] p = "description" -> "items" [] p = "items" -> "triggers"
    [] p = "triggers" -> "macros" [] p = "macros" -> "discovery"

tpl == templates[tplIdx]
dr == Get(tpl, "discovery_rules", <<>>)[ruleIdx]

Raise ==
  /\ pc' = "raised"
  /\ UNCHANGED <<mainLocals, environment, effects, underTest>>

CheckInput ==
  /\ pc = "start"
  /\ pc' = input_check(exists)
  /\ exitStatus' = IF pc' = "exited" THEN 1 ELSE exitStatus
  /\ UNCHANGED <<mainLocals, environment, loaderCalls, outputOpens, written, diag, dualLog, underTest>>

(* lines 101-103; open() raises when the file is missing *)
LoadTemplate ==
  /\ pc = "load"
  /\ loaderCalls' = loaderCalls + 1
  /\ IF exists
     THEN /\ templates' = Get(Get(input_file, "zabbix_export", Bare("e", 0)), "templates", <<>>)
          /\ md_output' = <<>>
          /\ pc' = "loop"
     ELSE /\ pc' = "raised"
          /\ UNCHANGED <<templates, md_output>>
  /\ UNCHANGED <<environment, tplIdx, ruleIdx, items, triggers, macros, discovery_rules,
                 outputOpens, written, exitStatus, diag, dualLog, underTest>>

(* line 104 *)
NextTemplate ==
  /\ pc = "loop"
  /\ IF tplIdx < Len(templates)
     THEN tplIdx' = tplIdx + 1 /\ pc' = "title"
     ELSE tplIdx' = tplIdx /\ pc' = "write"
  /\ UNCHANGED <<environment, templates, ruleIdx, md_output, items, triggers, macros,
                 discovery_rules, effects, diag, dualLog, underTest>>

(* line 105 *)
Title ==
  /\ pc = "title"
  /\ md_output' = Append(md_output,
       Chunk("Title", tplIdx, 0, "# Template: ", Str(Get(tpl, "template", EmptyStr)).v, NoTable))
  /\ pc' = SectionAfter("title")
  /\ UNCHANGED <<environment, templates, tplIdx, ruleIdx, items, triggers, macros,
                 discovery_rules, effects, diag, dualLog, underTest>>

(* lines 106-108 *)
Description ==
  /\ pc = "description"
  /\ LET d == Get(tpl, "description", EmptyStr)
     IN IF d.ty # "str" THEN Raise /\ dualLog' = <<>> /\ diag' = diag
        ELSE LET description == Strip(d.v)
             IN IF Truthy(description)
                THEN \E o \in {OutcomeAt(oracle, 1) : oracle \in OraclesFor(do_translate)} :
                       LET r == dual_description(S(description), do_translate, o)
                       IN /\ dualLog' = <<[text |-> S(description), flag |-> do_translate,
                                           outcome |-> IF r.attempts > 0 THEN o ELSE NotConsulted,
                                           ret |-> r.ret, raised |-> r.raised]>>
                          /\ diag' = diag + r.diag
                          /\ IF r.raised THEN Raise
                             ELSE /\ md_output' = Append(md_output,
                                       Chunk("Description", tplIdx, 0, "",
                                             sanitize_description(r.ret.v), NoTable))
                                  /\ pc' = SectionAfter("description")
                                  /\ UNCHANGED <<environment, templates, tplIdx, ruleIdx, items,
                                                 triggers, macros, discovery_rules, effects,
                                                 underTest>>
                ELSE /\ pc' = SectionAfter("description")
                     /\ dualLog' = <<>>
                     /\ UNCHANGED <<environment, mainLocals, effects, diag, underTest>>

(* lines 110-115 *)
Items ==
  /\ pc = "items"
  /\ \E r \in {extract_items(tpl, do_translate, oracle) : oracle \in OraclesFor(do_translate)} :
       /\ dualLog' = r.log
       /\ diag' = diag + r.diag
       /\ IF r.raised THEN Raise
          ELSE /\ items' = r.recs
               /\ md_output' =
                    IF Truthy(r.recs)
                    THEN Append(md_output, Chunk("Items", tplIdx, 0, "## Items", <<>>,
                                  markdown_table(ItemHeaders, ItemRows(r.recs))))
                    ELSE md_output
               /\ pc' = SectionAfter("items")
               /\ UNCHANGED <<environment, templates, tplIdx, ruleIdx, triggers, macros,
                              discovery_rules, effects, underTest>>

(* lines 117-122 *)
Triggers ==
  /\ pc = "triggers"
  /\ \E r \in {extract_triggers(tpl, do_translate, oracle) : oracle \in OraclesFor(do_translate)} :
       /\ dualLog' = r.log
       /\ diag' = diag + r.diag
       /\ IF r.raised THEN Raise
          ELSE /\ triggers' = r.recs
               /\ md_output' =
                    IF Truthy(r.recs)
                    THEN Append(md_output, Chunk("Triggers", tplIdx, 0, "## Triggers", <<>>,
                                  markdown_table(TriggerHeaders, TriggerRows(r.recs))))
                    ELSE md_output
               /\ pc' = SectionAfter("triggers")
               /\ UNCHANGED <<environment, templates, tplIdx, ruleIdx, items, macros,
                              discovery_rules, effects, underTest>>

(* lines 124-129 *)
Macros ==
  /\ pc = "macros"
  /\ \E r \in {extract_macros(tpl, do_translate, oracle) : oracle \in OraclesFor(do_translate)} :
       /\ dualLog' = r.log
       /\ diag' = diag + r.diag
       /\ IF r.raised THEN Raise
          ELSE /\ macros' = r.recs
               /\ md_output' =
                    IF Truthy(r.recs)
                    THEN Append(md_output, Chunk("Macros", tplIdx, 0, "## Macros", <<>>,
                                  markdown_table(MacroHeaders, MacroRows(r.recs))))
                    ELSE md_output
               /\ pc' = SectionAfter("macros")
               /\ UNCHANGED <<environment, templates, tplIdx, ruleIdx, items, triggers,
                              discovery_rules, effects, underTest>>

(* lines 131-136 *)
DiscoveryRules ==
  /\ pc = "discovery"
  /\ \E r \in {extract_discovery_rules(tpl, do_translate, oracle) : oracle \in OraclesFor(do_translate)} :
       /\ dualLog' = r.log
       /\ diag' = diag + r.diag
       /\ IF r.raised THEN Raise
          ELSE /\ discovery_rules' = r.recs
               /\ md_output' =
                    IF Truthy(r.recs)
                    THEN Append(md_output,
                           Chunk("Discovery rules", tplIdx, 0, "## Discovery rules", <<>>,
                                 markdown_table(RuleHeaders, RuleRows(r.recs))))
                    ELSE md_output
               /\ pc' = IF Truthy(r.recs) THEN "rules" ELSE "loop"
               /\ ruleIdx' = 0
               /\ UNCHANGED <<environment, templates, tplIdx, items, triggers, macros,
                              effects, underTest>>

(* line 137 *)
NextRule ==
  /\ pc = "rules"
  /\ IF ruleIdx < Len(Get(tpl, "discovery_rules", <<>>))
     THEN ruleIdx' = ruleIdx + 1 /\ pc' = "item_protos"
     ELSE ruleIdx' = ruleIdx /\ pc' = "loop"
  /\ UNCHANGED <<environment, templates, tplIdx, md_output, items, triggers, macros,
                 discovery_rules, effects, diag, dualLog, underTest>>

(* lines 138-153 *)
ItemProtos ==
  /\ pc = "item_protos"
  /\ LET item_protos == Get(dr, "item_prototypes", <<>>)
     IN IF Truthy(item_protos)
        THEN \E r \in {ItemProtosLoop(item_protos, do_translate, oracle, NoRecords) : oracle \in OraclesFor(do_translate)} :
               /\ dualLog' = r.log
               /\ diag' = diag + r.diag
               /\ IF r.raised THEN Raise
                  ELSE /\ md_output' = Append(md_output,
                            Chunk("Item prototypes", tplIdx, ruleIdx,
                                  "### Item prototypes for discovery: ",
                                  Str(Get(dr, "name", None)).v,
                                  markdown_table(ItemHeaders, ItemRows(r.recs))))
                       /\ pc' = "trigger_protos"
                       /\ UNCHANGED <<environment, templates, tplIdx, ruleIdx, items, triggers,
                                      macros, discovery_rules, effects, underTest>>
        ELSE /\ pc' = "trigger_protos"
             /\ dualLog' = <<>>
             /\ UNCHANGED <<environment, mainLocals, effects, diag, underTest>>

(* lines 154-159 *)
TriggerProtos ==
  /\ pc = "trigger_protos"
  /\ LET trigger_protos == Get(dr, "trigger_prototypes", <<>>)
     IN IF Truthy(trigger_protos)
        THEN \E r \in {TriggerProtosLoop(trigger_protos, do_translate, oracle, NoRecords) : oracle \in OraclesFor(do_translate)} :
               /\ dualLog' = r.log
               /\ diag' = diag + r.diag
               /\ IF r.raised THEN Raise
                  ELSE /\ md_output' = Append(md_output,
                            Chunk("Trigger prototypes", tplIdx, ruleIdx,
                                  "### Trigger prototypes for discovery: ",
                                  Str(Get(dr, "name", None)).v,
                                  markdown_table(TriggerHeaders, TriggerRows(r.recs))))
                       /\ pc' = "rules"
                       /\ UNCHANGED <<environment, templates, tplIdx, ruleIdx, items, triggers,
                                      macros, discovery_rules, effects, underTest>>
        ELSE /\ pc' = "rules"
             /\ dualLog' = <<>>
             /\ UNCHANGED <<environment, mainLocals, effects, diag, underTest>>

(* lines 160-162 *)
WriteOutput ==
  /\ pc = "write"
  /\ outputOpens' = outputOpens + 1
  /\ written' = md_output
  /\ pc' = "done"
  /\ UNCHANGED <<environment, mainLocals, loaderCalls, exitStatus, diag, dualLog, underTest>>

Next ==
  \/ CheckInput
  \/ LoadTemplate
  \/ NextTemplate
  \/ Title
  \/ Description
  \/ Items
  \/ Triggers
  \/ Macros
  \/ DiscoveryRules
  \/ NextRule
  \/ ItemProtos
  \/ TriggerProtos
  \/ WriteOutput

Spec == Init /\ [][Next]_vars

(* ------------------- the text functions on their own -------------------- *)
NoEnvironment == exists = TRUE /\ do_translate = FALSE /\ input_file = NoExport

InitSan ==
  /\ pc = "san_ready"
  /\ MainStart /\ NoEnvironment
  /\ arg \in {[text |-> t] : t \in Texts}
  /\ result = Idle

Sanitize ==
  /\ pc = "san_ready"
  /\ result' = [once |-> sanitize_description(arg.text)]
  /\ pc' = "san_once"
  /\ UNCHANGED <<environment, mainLocals, effects, diag, dualLog, arg>>

SanitizeAgain ==
  /\ pc = "san_once"
  /\ result' = [once |-> result.once, twice |-> sanitize_description(result.once)]
  /\ pc' = "san_twice"
  /\ UNCHANGED <<environment, mainLocals, effects, diag, dualLog, arg>>

NextSan == Sanitize \/ SanitizeAgain

SpecSan == InitSan /\ [][NextSan]_vars

InitDual ==
  /\ pc = "dual_ready"
  /\ MainStart /\ NoEnvironment
  /\ arg \in {[text |-> S(t), flag |-> f] : t \in Texts, f \in BOOLEAN}
  /\ result = Idle

CallDual ==
  /\ pc = "dual_ready"
  /\ \E o \in Outcomes :
       result' = [outcome |-> o, res |-> dual_description(arg.text, arg.flag, o)]
  /\ pc' = "dual_returned"
  /\ UNCHANGED <<environment, mainLocals, effects, diag, dualLog, arg>>

NextDual == CallDual

SpecDual == InitDual /\ [][NextDual]_vars

(* --------------------- the extractors on their own ---------------------- *)
(* n sample entities of one kind: the odd ones have every field, the even *)
(* ones only a name                                                       *)
SampleTriggers(c, base, n) ==
  [j \in 1..n |-> IF j % 2 = 1 THEN FullTrigger(c, base + j, TwoLines)
                  ELSE With(Bare(c, base + j), "name", Name(c, base + j))]
SampleItems(c, n) ==
  [j \in 1..n |-> IF j % 2 = 1 THEN FullItem(c, j, PlainText) ELSE Bare(c, j)]
SampleMacros(n) ==
  [j \in 1..n |-> IF j % 2 = 1 THEN FullMacro(j, PlainText)
                  ELSE With(Bare("m", j), "description", BlankText)]
SampleRules(n) ==
  [j \in 1..n |->
     IF j % 2 = 1
     THEN With(With(FullRule(j, TwoLines), "item_prototypes", SampleItems("p", n)),
               "trigger_prototypes", SampleTriggers("q", 10 * j, n - 1))
     ELSE With(Bare("d", j), "item_prototypes", <<>>)]

(* what the i-th item of a template can be *)
ItemVariants(i) ==
  {Bare("i", i), FullItem("i", i, PlainText)}
    \cup {With(FullItem("i", i, BlankText), "triggers", SampleTriggers("n", 10 * i, n)) :
            n \in 0..MaxEntries}

ItemLists ==
  UNION {{q \in [1..n -> UNION {ItemVariants(i) : i \in 1..n}] :
            \A i \in 1..n : q[i] \in ItemVariants(i)} : n \in 0..MaxEntries}

WithTemplateTriggers(t) ==
  {t} \cup {With(t, "triggers", SampleTriggers("t", 0, n)) : n \in 0..MaxEntries}

ExtractTemplates ==
  UNION {WithTemplateTriggers(t) : t \in {Bare("T", 0)} \cup {With(Bare("T", 0), "items", q) : q \in ItemLists}}
    \cup {With(Bare("T", 0), "macros", SampleMacros(n)) : n \in 0..MaxEntries}
    \cup {With(Bare("T", 0), "discovery_rules", SampleRules(n)) : n \in 0..MaxEntries}

InitExtract ==
  /\ pc = "extract_ready"
  /\ MainStart /\ NoEnvironment
  /\ arg \in {[template |-> t, flag |-> f] : t \in ExtractTemplates, f \in BOOLEAN}
  /\ result = Idle

Extracted(kind, j, res) ==
  /\ pc = "extract_ready"
  /\ result' = [rule |-> j, res |-> res]
  /\ pc' = kind
  /\ UNCHANGED <<environment, mainLocals, effects, diag, dualLog, arg>>

ExtractItems ==
  \E oracle \in Oracles : Extracted("items", 0, extract_items(arg.template, arg.flag, oracle))

ExtractTriggers ==
  \E oracle \in Oracles : Extracted("triggers", 0, extract_triggers(arg.template, arg.flag, oracle))

ExtractMacros ==
  \E oracle \in Oracles : Extracted("macros", 0, extract_macros(arg.template, arg.flag, oracle))

ExtractRules ==
  \E oracle \in Oracles :
    Extracted("discovery_rules", 0, extract_discovery_rules(arg.template, arg.flag, oracle))

ExtractItemProtos ==
  \E oracle \in Oracles, j \in 1..Len(Get(arg.template, "discovery_rules", <<>>)) :
    Extracted("item_prototypes", j,
      ItemProtosLoop(Get(arg.template.discovery_rules[j], "item_prototypes", <<>>),
                     arg.flag, oracle, NoRecords))

ExtractTriggerProtos ==
  \E oracle \in Oracles, j \in 1..Len(Get(arg.template, "discovery_rules", <<>>)) :
    Extracted("trigger_prototypes", j,
      TriggerProtosLoop(Get(arg.template.discovery_rules[j], "trigger_prototypes", <<>>),
                        arg.flag, oracle, NoRecords))

(* lines 119-122 on the triggers just extracted *)
RenderTriggers ==
  /\ pc = "triggers"
  /\ ~result.res.raised
  /\ result' = [rule |-> 0, res |-> result.res,
                table |-> markdown_table(TriggerHeaders, TriggerRows(result.res.recs))]
  /\ pc' = "triggers_rendered"
  /\ UNCHANGED <<environment, mainLocals, effects, diag, dualLog, arg>>

NextExtract ==
  \/ ExtractItems
  \/ ExtractTriggers
  \/ RenderTriggers
  \/ ExtractMacros
  \/ ExtractRules
  \/ ExtractItemProtos
  \/ ExtractTriggerProtos

SpecExtract == InitExtract /\ [][NextExtract]_vars

(* ======================= properties of the text functions =============== *)
HasPipe(text) == \E i \in 1..Len(text) : text[i] = PIPE
HasNewline(text) == \E i \in 1..Len(text) : text[i] = NL
OnlyWhitespace(text) == \A i \in 1..Len(text) : text[i] = SPACE \/ text[i] = NL
Sanitized == pc \in {"san_once", "san_twice"}

(* C6: once a text containing '|' has been sanitized, every '|' of the    *)
(* result is preceded by exactly one backslash, so none is left unescaped *)
C6_EveryPipeEscapedOnce ==
  (Sanitized /\ HasPipe(arg.text)) =>
    \A i \in 1..Len(result.once) :
      result.once[i] = PIPE =>
        /\ i > 1
        /\ result.once[i - 1] = BSL
        /\ (i > 2 => result.once[i - 2] # BSL)

C5_NoCallWhenOffOrBlank ==
  pc = "dual_returned" =>
    /\ (~arg.flag \/ OnlyWhitespace(arg.text.v)) =>
         /\ result.res.ret = arg.text
         /\ ~result.res.raised
         /\ result.res.attempts = 0 /\ result.res.calls = 0 /\ result.res.diag = 0
    /\ (result.res.attempts > 0 \/ result.res.calls > 0) =>
         (arg.flag /\ ~OnlyWhitespace(arg.text.v))

C5_Witness ==
  /\ pc = "dual_returned"
  /\ arg.flag /\ Len(arg.text.v) > 0 /\ OnlyWhitespace(arg.text.v)
  /\ result.outcome.kind = "ok"
  /\ result.res.ret = arg.text /\ result.res.calls = 0

(* ============================ properties of main() ====================== *)
(* the source tree read without the program's accessors *)
Field(d, k) == IF k \in DOMAIN d THEN d[k] ELSE [ty |-> "str", v |-> <<>>]
Listed(d, k) == IF k \in DOMAIN d THEN d[k] ELSE <<>>
TextOf(x) == IF x.ty = "none" THEN <<"N", "o", "n", "e">> ELSE x.v

Sections ==
  <<"Title", "Description", "Items", "Triggers", "Macros", "Discovery rules",
    "Item prototypes", "Trigger prototypes">>
Rank(sect) == CHOOSE n \in 1..Len(Sections) : Sections[n] = sect

(* a is appended before b in a correctly ordered output *)
Precedes(a, b) ==
  \/ a.tpl < b.tpl
  \/ /\ a.tpl = b.tpl
     /\ IF Rank(a.sect) <= 6 \/ Rank(b.sect) <= 6
        THEN Rank(a.sect) < Rank(b.sect)
        ELSE a.rule < b.rule \/ (a.rule = b.rule /\ Rank(a.sect) < Rank(b.sect))

(* C1: the output of a template is its heading, then its description,     *)
(* Items, Triggers, Macros and Discovery rules sections, then for each    *)
(* rule in order its Item prototypes and its Trigger prototypes; the      *)
(* templates follow one another in document order                         *)
C1_FixedSectionOrder ==
  /\ \A n \in 1..Len(md_output) :
       /\ md_output[n].sect \in {Sections[r] : r \in 1..Len(Sections)}
       /\ md_output[n].tpl \in 1..Len(templates)
       /\ md_output[n].sect = "Title" =>
            md_output[n].text = TextOf(Field(templates[md_output[n].tpl], "template"))
       /\ Rank(md_output[n].sect) >= 7 =>
            /\ md_output[n].rule \in 1..Len(Listed(templates[md_output[n].tpl], "discovery_rules"))
            /\ md_output[n].text =
                 TextOf(LET rule == Listed(templates[md_output[n].tpl], "discovery_rules")[md_output[n].rule]
                        IN IF "name" \in DOMAIN rule THEN rule.name ELSE [ty |-> "none", v |-> <<>>])
  /\ Len(md_output) > 0 => md_output[1].sect = "Title" /\ md_output[1].tpl = 1
  /\ \A n \in 1..(Len(md_output) - 1) :
       /\ Precedes(md_output[n], md_output[n + 1])
       /\ md_output[n + 1].tpl # md_output[n].tpl =>
            /\ md_output[n + 1].sect = "Title"
            /\ md_output[n + 1].tpl = md_output[n].tpl + 1

C1_Witness ==
  /\ pc = "done"
  /\ \E m, n \in 1..Len(written) :
       /\ m < n
       /\ written[m].sect = "Trigger prototypes" /\ written[m].rule = 2
       /\ written[m].tpl = 1 /\ written[m - 1].sect = "Item prototypes"
       /\ written[n].sect = "Macros" /\ written[n].tpl = 2

RECURSIVE NestedTriggerCount(_)
NestedTriggerCount(its) ==
  IF its = <<>> THEN 0 ELSE Len(Listed(Head(its), "triggers")) + NestedTriggerCount(Tail(its))

ChunksOf(k, sect, j) ==
  {n \in 1..Len(md_output) :
     md_output[n].tpl = k /\ md_output[n].sect = sect /\ md_output[n].rule = j}

(* the section is there once with one row per record, or not at all when  *)
(* there is no record                                                     *)
SectionIff(k, sect, j, count) ==
  /\ Cardinality(ChunksOf(k, sect, j)) = (IF count > 0 THEN 1 ELSE 0)
  /\ \A n \in ChunksOf(k, sect, j) : Len(md_output[n].table.rows) = count

(* C2: when every template has been processed, a section is in the output *)
(* exactly when its records are not empty, and then with one row each     *)
C2_SectionIffRecords ==
  pc \in {"write", "done"} =>
    /\ \A n \in 1..Len(md_output) :
         Rank(md_output[n].sect) >= 7 =>
           md_output[n].rule \in 1..Len(Listed(templates[md_output[n].tpl], "discovery_rules"))
    /\ \A k \in 1..Len(templates) :
         LET t == templates[k]
         IN /\ Cardinality(ChunksOf(k, "Title", 0)) = 1
            /\ Cardinality(ChunksOf(k, "Description", 0)) =
                 (IF OnlyWhitespace(Field(t, "description").v) THEN 0 ELSE 1)
            /\ SectionIff(k, "Items", 0, Len(Listed(t, "items")))
            /\ SectionIff(k, "Triggers", 0,
                          NestedTriggerCount(Listed(t, "items")) + Len(Listed(t, "triggers")))
            /\ SectionIff(k, "Macros", 0, Len(Listed(t, "macros")))
            /\ SectionIff(k, "Discovery rules", 0, Len(Listed(t, "discovery_rules")))
            /\ \A j \in 1..Len(Listed(t, "discovery_rules")) :
                 /\ SectionIff(k, "Item prototypes", j,
                               Len(Listed(Listed(t, "discovery_rules")[j], "item_prototypes")))
                 /\ SectionIff(k, "Trigger prototypes", j,
                               Len(Listed(Listed(t, "discovery_rules")[j], "trigger_prototypes")))

C2_Witness ==
  /\ pc = "done"
  /\ \E k \in 1..Len(templates) :
       \E j \in 1..Len(Listed(templates[k], "discovery_rules")) :
         /\ Len(Listed(Listed(templates[k], "discovery_rules")[j], "item_prototypes")) = 2
         /\ Len(Listed(Listed(templates[k], "discovery_rules")[j], "trigger_prototypes")) = 0
         /\ \E n \in ChunksOf(k, "Item prototypes", j) : Len(md_output[n].table.rows) = 2
         /\ ChunksOf(k, "Trigger prototypes", j) = {}
  /\ \E k \in 1..Len(templates) :
       {md_output[n].sect : n \in {m \in 1..Len(md_output) : md_output[m].tpl = k}} = {"Title"}

TitlesWritten == {written[n].tpl : n \in {m \in 1..Len(written) : written[m].sect = "Title"}}

(* C4: a dual_description call on which the provider fails returns its    *)
(* argument and raises nothing, whatever the flag; the run never stops on *)
(* an exception, and when it is done every template is in the output      *)
C4_ProviderFailureTolerated ==
  /\ pc # "raised"
  /\ \A n \in 1..Len(dualLog) :
       dualLog[n].outcome.kind # "ok" =>
         (~dualLog[n].raised /\ dualLog[n].ret = dualLog[n].text)
  /\ pc = "done" =>
       /\ outputOpens = 1
       /\ written = md_output
       /\ tplIdx = Len(templates)
       /\ TitlesWritten = 1..Len(templates)

C4_Witness ==
  /\ pc = "done"
  /\ do_translate
  /\ diag >= 2
  /\ Len(templates) >= 2
  /\ TitlesWritten = 1..Len(templates)

(* C9: a missing input ends the run with status 1 before load_template is *)
(* called and without the output being opened; the output is opened at    *)
(* most once, and only when every template has been processed             *)
C9_MissingInputAndSingleWrite ==
  /\ ~exists =>
       /\ pc \in {"start", "exited"}
       /\ loaderCalls = 0 /\ outputOpens = 0 /\ written = <<>>
  /\ pc = "exited" => (~exists /\ exitStatus = 1)
  /\ exitStatus # -1 => pc = "exited"
  /\ outputOpens <= 1
  /\ outputOpens = 1 =>
       /\ pc = "done"
       /\ loaderCalls = 1
       /\ tplIdx = Len(templates)
       /\ {md_output[n].tpl : n \in {m \in 1..Len(md_output) : md_output[m].sect = "Title"}}
            = 1..Len(templates)

C9_Witness == pc = "exited" /\ ~exists /\ exitStatus = 1 /\ loaderCalls = 0 /\ outputOpens = 0

(* what dual_description may return for a description *)
DualImages(x, flag) ==
  IF flag /\ ~OnlyWhitespace(x.v)
  THEN {x} \cup {[ty |-> "str", v |-> ru \o BR \o Italic(x.v)] : ru \in RuTexts}
  ELSE {x}

RECURSIVE NestedTriggers(_)
NestedTriggers(its) ==
  IF its = <<>> THEN <<>> ELSE Listed(Head(its), "triggers") \o NestedTriggers(Tail(its))

(* the triggers of a template: those of its items, then its own *)
AllTriggers(t) == NestedTriggers(Listed(t, "items")) \o Listed(t, "triggers")

ItemFieldNames == <<"name", "key", "type", "value_type", "units">>
TriggerFieldNames == <<"name", "expression", "priority">>
MacroFieldNames == <<"macro", "value">>
RuleFieldNames == <<"name", "key">>

(* rec holds the fields of src as they are in the source, '' for a missing *)
(* one, and a description that is the source's or its translation          *)
RawRecord(rec, src, names, flag) ==
  /\ DOMAIN rec = {names[c] : c \in 1..Len(names)} \cup {"description"}
  /\ \A c \in 1..Len(names) : rec[names[c]] = Field(src, names[c])
  /\ rec.description \in DualImages(Field(src, "description"), flag)

RawRecords(recs, srcs, names, flag) ==
  /\ Len(recs) = Len(srcs)
  /\ \A n \in 1..Len(srcs) : RawRecord(recs[n], srcs[n], names, flag)

(* row is src rendered with every cell sanitized once *)
SanitizedOnceRow(row, src, names, flag) ==
  /\ Len(row) = Len(names) + 1
  /\ \A c \in 1..Len(names) : row[c] = sanitize_description(TextOf(Field(src, names[c])))
  /\ row[Len(names) + 1] \in
       {sanitize_description(x.v) : x \in DualImages(Field(src, "description"), flag)}

SanitizedOnceRows(rows, srcs, names, flag) ==
  /\ Len(rows) = Len(srcs)
  /\ \A n \in 1..Len(srcs) : SanitizedOnceRow(rows[n], srcs[n], names, flag)

(* the records of the template the loop is at have been extracted *)
After(steps) == tplIdx >= 1 /\ pc \notin (steps \cup {"title", "raised"})

(* C10: every cell and every template description in the output is the    *)
(* source text, translated or not, sanitized exactly once; the records    *)
(* the extractors return hold the text unsanitized                        *)
C10_SanitizedOnceAtRender ==
  /\ \A n \in 1..Len(md_output) :
       LET c == md_output[n]
           t == templates[c.tpl]
       IN CASE c.sect = "Description" ->
                 c.text \in {sanitize_description(x.v) :
                               x \in DualImages([ty |-> "str", v |-> Strip(Field(t, "description").v)],
                                                do_translate)}
            [] c.sect = "Items" ->
                 SanitizedOnceRows(c.table.rows, Listed(t, "items"), ItemFieldNames, do_translate)
            [] c.sect = "Triggers" ->
                 SanitizedOnceRows(c.table.rows, AllTriggers(t), TriggerFieldNames, do_translate)
            [] c.sect = "Macros" ->
                 SanitizedOnceRows(c.table.rows, Listed(t, "macros"), MacroFieldNames, do_translate)
            [] c.sect = "Discovery rules" ->
                 SanitizedOnceRows(c.table.rows, Listed(t, "discovery_rules"), RuleFieldNames,
                                   do_translate)
            [] c.sect = "Item prototypes" ->
                 SanitizedOnceRows(c.table.rows,
                                   Listed(Listed(t, "discovery_rules")[c.rule], "item_prototypes"),
                                   ItemFieldNames, do_translate)
            [] c.sect = "Trigger prototypes" ->
                 SanitizedOnceRows(c.table.rows,
                                   Listed(Listed(t, "discovery_rules")[c.rule], "trigger_prototypes"),
                                   TriggerFieldNames, do_translate)
            [] OTHER -> TRUE
  /\ After({"description", "items"}) =>
       RawRecords(items, Listed(tpl, "items"), ItemFieldNames, do_translate)
  /\ After({"description", "items", "triggers"}) =>
       RawRecords(triggers, AllTriggers(tpl), TriggerFieldNames, do_translate)
  /\ After({"description", "items", "triggers", "macros"}) =>
       RawRecords(macros, Listed(tpl, "macros"), MacroFieldNames, do_translate)
  /\ After({"description", "items", "triggers", "macros", "discovery"}) =>
       RawRecords(discovery_rules, Listed(tpl, "discovery_rules"), RuleFieldNames, do_translate)

C10_Witness ==
  /\ pc = "done"
  /\ \E n \in 1..Len(written) :
       /\ written[n].sect = "Items"
       /\ written[n].table.rows[1][6] =
            <<"r", BSL, PIPE>> \o BR \o <<"<", "i", ">", "a">> \o BR \o <<BSL, PIPE, "<", "/", "i", ">">>
  /\ \E n \in 1..Len(written) :
       written[n].sect = "Description" /\ written[n].text = <<BSL, PIPE, "a">>
  /\ \E n \in 1..Len(items) :
       items[n].description = [ty |-> "str", v |-> <<"r", PIPE>> \o BR \o Italic(<<"a", NL, PIPE>>)]

(* ====================== properties of the extractors ==================== *)
(* C3: extract_triggers returns one record per trigger of the template,   *)
(* those nested under the items first, in item order, then the template's *)
(* own, and the Triggers table has its rows in that order                 *)
C3_NestedThenTemplateTriggers ==
  /\ pc \in {"triggers", "triggers_rendered"} =>
       /\ ~result.res.raised
       /\ RawRecords(result.res.recs, AllTriggers(arg.template), TriggerFieldNames, arg.flag)
  /\ pc = "triggers_rendered" =>
       SanitizedOnceRows(result.table.rows, AllTriggers(arg.template), TriggerFieldNames, arg.flag)

C3_Witness ==
  /\ pc = "triggers_rendered"
  /\ Len(Listed(arg.template, "items")) >= 2
  /\ \A i \in 1..Len(Listed(arg.template, "items")) :
       Len(Listed(arg.template.items[i], "triggers")) >= 1
  /\ Len(Listed(arg.template, "triggers")) >= 2
  /\ Len(result.table.rows) = Len(AllTriggers(arg.template))
  /\ result.table.rows[1][1] = <<"n", "1", "1">>
  /\ result.table.rows[Len(result.table.rows)][1] = <<"t", "0", "2">>

ExtractedFrom ==
  CASE pc = "items" -> Listed(arg.template, "items")
    [] pc \in {"triggers", "triggers_rendered"} -> AllTriggers(arg.template)
    [] pc = "macros" -> Listed(arg.template, "macros")
    [] pc = "discovery_rules" -> Listed(arg.template, "discovery_rules")
    [] pc = "item_prototypes" -> Listed(arg.template.discovery_rules[result.rule], "item_prototypes")
    [] pc = "trigger_prototypes" ->
         Listed(arg.template.discovery_rules[result.rule], "trigger_prototypes")

ExtractedFields ==
  CASE pc \in {"items", "item_prototypes"} -> ItemFieldNames
    [] pc \in {"triggers", "triggers_rendered", "trigger_prototypes"} -> TriggerFieldNames
    [] pc = "macros" -> MacroFieldNames
    [] pc = "discovery_rules" -> RuleFieldNames

(* C8: every extractor returns without raising one record per source      *)
(* entry, in source order, with '' for each missing field; an absent or   *)
(* empty collection gives no record                                       *)
C8_OneRecordPerEntry ==
  pc # "extract_ready" =>
    /\ ~result.res.raised
    /\ RawRecords(result.res.recs, ExtractedFrom, ExtractedFields, arg.flag)

C8_Witness ==
  /\ pc = "item_prototypes"
  /\ Len(result.res.recs) >= 2
  /\ \E n \in 1..Len(ExtractedFrom) :
       /\ DOMAIN ExtractedFrom[n] = {"uuid"}
       /\ result.res.recs[n].name = [ty |-> "str", v |-> <<>>]
       /\ result.res.recs[n].description = [ty |-> "str", v |-> <<>>]

====
